---- MODULE Spec2Model ----
(***************************************************************************)
(* A model of the aconfig loader (src/aconfig.go): the field catalog built *)
(* by getFields, the four stages of Loader.Load (defaults, file,           *)
(* environment, flags) and the setters of settersByKind.                   *)
(*                                                                         *)
(* Strings are sequences of one-character strings, so that case mapping,   *)
(* replacement and parsing are computed character by character.  Integers  *)
(* of the Go program are little-endian sequences of bytes (0..255), eight  *)
(* bytes for a 64-bit value, so that the 64-bit range check of strconv and *)
(* the narrowing store of reflect.Value.SetInt keep their widths.          *)
(***************************************************************************)
EXTENDS Integers, Sequences, FiniteSets, TLC

(***************************************************************************)
(* Strings                                                                 *)
(***************************************************************************)
LowerLetters ==
    << "a","b","c","d","e","f","g","h","i","j","k","l","m",
       "n","o","p","q","r","s","t","u","v","w","x","y","z" >>

UpperLetters ==
    << "A","B","C","D","E","F","G","H","I","J","K","L","M",
       "N","O","P","Q","R","S","T","U","V","W","X","Y","Z" >>

Digits ==
    << "0","1","2","3","4","5","6","7","8","9" >>

IndexIn(c, seq) ==
    IF \E i \in DOMAIN seq : seq[i] = c
      THEN CHOOSE i \in DOMAIN seq : seq[i] = c
      ELSE 0

\* strings.ToUpper, on the ASCII letters
ToUpper(s) ==
    [ i \in DOMAIN s |->
        IF IndexIn(s[i], LowerLetters) # 0
          THEN UpperLetters[IndexIn(s[i], LowerLetters)] ELSE s[i] ]

\* strings.ToLower, on the ASCII letters
ToLower(s) ==
    [ i \in DOMAIN s |->
        IF IndexIn(s[i], UpperLetters) # 0
          THEN LowerLetters[IndexIn(s[i], UpperLetters)] ELSE s[i] ]

\* strings.ReplaceAll(s, old, new) for a one-character old and new
ReplaceAll(s, old, new) ==
    [ i \in DOMAIN s |-> IF s[i] = old THEN new ELSE s[i] ]

IsDigit(c) == IndexIn(c, Digits) # 0

DigitVal(c) == IndexIn(c, Digits) - 1

Tail2(s) == SubSeq(s, 2, Len(s))

(***************************************************************************)
(* 64-bit integers as eight little-endian bytes                            *)
(***************************************************************************)
\* a byte holds 2^8 values
ByteBase == 2 ^ 8

\* the 64 of strconv.ParseInt(value, 10, 64), in bytes
WordBytes == 64 \div 8

Zero64 == [ i \in 1..WordBytes |-> 0 ]

RECURSIVE MulAddFrom(_, _, _, _)
\* bytes * m + carry, from byte i on; the result keeps WordBytes bytes and
\* the carry out of the last one
MulAddFrom(bytes, m, carry, i) ==
    IF i > Len(bytes)
      THEN [ bytes |-> bytes, carry |-> carry ]
      ELSE LET t == bytes[i] * m + carry
           IN  MulAddFrom([bytes EXCEPT ![i] = t % ByteBase], m, t \div ByteBase, i + 1)

MulAdd(bytes, m, a) == MulAddFrom(bytes, m, a, 1)

\* two's complement negation, modulo 2^64
Neg64(bytes) ==
    MulAdd([ i \in DOMAIN bytes |-> (ByteBase - 1) - bytes[i] ], 1, 1).bytes

\* the low w bits of a 64-bit value: what a store into a w-bit field keeps
Truncate(bytes, bits) == SubSeq(bytes, 1, bits \div 8)

\* a w-bit two's complement value widened back to 64 bits by sign extension
SignExtend(v) ==
    [ i \in 1..WordBytes |->
        IF i <= Len(v) THEN v[i]
        ELSE IF v[Len(v)] >= ByteBase \div 2 THEN ByteBase - 1 ELSE 0 ]

\* a w-bit unsigned value widened back to 64 bits
ZeroExtend(v) ==
    [ i \in 1..WordBytes |-> IF i <= Len(v) THEN v[i] ELSE 0 ]

(***************************************************************************)
(* strconv                                                                 *)
(***************************************************************************)
RECURSIVE ParseUintFrom(_, _, _)
RECURSIVE ParseUintStep(_, _, _)
\* the digit loop of ParseUint from character i on; acc is the value so far
ParseUintFrom(s, i, acc) ==
    IF i > Len(s) THEN [ ok |-> TRUE, val |-> acc, err |-> "" ]
    ELSE IF ~IsDigit(s[i]) THEN [ ok |-> FALSE, val |-> Zero64, err |-> "syntax" ]
    ELSE ParseUintStep(s, i, MulAdd(acc, 10, DigitVal(s[i])))

\* the overflow check of the digit loop: r is acc * 10 + digit
ParseUintStep(s, i, r) ==
    IF r.carry # 0
      THEN [ ok |-> FALSE, val |-> Zero64, err |-> "range" ]
      ELSE ParseUintFrom(s, i + 1, r.bytes)

\* strconv.ParseUint(s, 10, 64): no sign, decimal digits, at most 2^64 - 1
ParseUint(s) ==
    IF Len(s) = 0 THEN [ ok |-> FALSE, val |-> Zero64, err |-> "syntax" ]
    ELSE ParseUintFrom(s, 1, Zero64)

\* 2^63 as a 64-bit pattern
Bit63 ==
    [ i \in 1..WordBytes |-> IF i = WordBytes THEN ByteBase \div 2 ELSE 0 ]

\* the end of ParseInt: un is the magnitude ParseUint read, checked against
\* 2^63 (2^63 itself is in range when the sign is minus)
ParseIntSigned(neg, un) ==
    IF ~un.ok THEN un
    ELSE IF un.val[WordBytes] >= ByteBase \div 2 /\ ~(neg /\ un.val = Bit63)
      THEN [ ok |-> FALSE, val |-> Zero64, err |-> "range" ]
    ELSE [ ok |-> TRUE, val |-> IF neg THEN Neg64(un.val) ELSE un.val, err |-> "" ]

\* strconv.ParseInt(s, 10, 64): an optional sign, then ParseUint, then the
\* check against 2^63
ParseInt(s) ==
    IF Len(s) = 0 THEN [ ok |-> FALSE, val |-> Zero64, err |-> "syntax" ]
    ELSE ParseIntSigned(s[1] = "-",
                        ParseUint(IF s[1] \in {"+", "-"} THEN Tail2(s) ELSE s))

\* strconv.ParseBool: exactly these tokens
ParseBool(s) ==
    IF s \in { <<"1">>, <<"t">>, <<"T">>, <<"T","R","U","E">>,
               <<"t","r","u","e">>, <<"T","r","u","e">> }
      THEN [ ok |-> TRUE, val |-> TRUE, err |-> "" ]
    ELSE IF s \in { <<"0">>, <<"f">>, <<"F">>, <<"F","A","L","S","E">>,
                    <<"f","a","l","s","e">>, <<"F","a","l","s","e">> }
      THEN [ ok |-> TRUE, val |-> FALSE, err |-> "" ]
    ELSE [ ok |-> FALSE, val |-> FALSE, err |-> "syntax" ]

RECURSIVE StripZeros(_)
\* a digit string without its leading zeros ("0" for zero)
StripZeros(s) ==
    IF Len(s) > 1 /\ s[1] = "0" THEN StripZeros(Tail2(s)) ELSE s

\* The value of a float: its sign and the decimal digits of its magnitude.
\* strconv.ParseFloat(s, 64) on the strings of this model, which hold no
\* '.', '_', exponent or base prefix: an optional sign and decimal digits, or
\* one of the words inf, infinity, nan (any case); everything else is a
\* syntax error.  The digit strings of the model are short enough to be
\* exact in 64 bits.
ParseFloatUnsigned(signed, neg, rest) ==
    IF ToLower(rest) \in { <<"i","n","f">>, <<"i","n","f","i","n","i","t","y">> }
      THEN [ ok |-> TRUE, val |-> [ neg |-> neg, mag |-> <<"i","n","f">> ], err |-> "" ]
    ELSE IF ~signed /\ ToLower(rest) = <<"n","a","n">>
      THEN [ ok |-> TRUE, val |-> [ neg |-> FALSE, mag |-> <<"n","a","n">> ], err |-> "" ]
    ELSE IF Len(rest) > 0 /\ \A i \in DOMAIN rest : IsDigit(rest[i])
      THEN [ ok |-> TRUE, val |-> [ neg |-> neg, mag |-> StripZeros(rest) ], err |-> "" ]
    ELSE [ ok |-> FALSE, val |-> [ neg |-> FALSE, mag |-> <<"0">> ], err |-> "syntax" ]

ParseFloat(s) ==
    IF Len(s) > 0 /\ s[1] \in {"+", "-"}
      THEN ParseFloatUnsigned(TRUE, s[1] = "-", Tail2(s))
      ELSE ParseFloatUnsigned(FALSE, FALSE, s)

(***************************************************************************)
(* time.ParseDuration, on strings without '.'                              *)
(***************************************************************************)
\* x > 2^63, for a 64-bit pattern read as unsigned
Above63(x) == x[WordBytes] >= ByteBase \div 2 /\ x # Bit63

RECURSIVE AddFrom(_, _, _, _)
AddFrom(a, b, carry, i) ==
    IF i > Len(a)
      THEN [ bytes |-> a, carry |-> carry ]
      ELSE LET t == a[i] + b[i] + carry
           IN  AddFrom([a EXCEPT ![i] = t % ByteBase], b, t \div ByteBase, i + 1)

Add64(a, b) == AddFrom(a, b, 0, 1)

\* unitMap of package time: each unit in nanoseconds, as a product of
\* factors small enough to multiply a byte
UnitFactors(u) ==
    CASE u = <<"n","s">> -> << 1 >>
      [] u = <<"u","s">> -> << 1000 >>
      [] u = <<"m","s">> -> << 1000, 1000 >>
      [] u = <<"s">>     -> << 1000, 1000, 1000 >>
      [] u = <<"m">>     -> << 1000, 1000, 1000, 60 >>
      [] u = <<"h">>     -> << 1000, 1000, 1000, 3600 >>
      [] OTHER           -> << >>

RECURSIVE MulFactors(_, _, _)
RECURSIVE MulFactorsStep(_, _, _, _)
\* v times the factors, with overflow past 64 bits noted
MulFactors(v, fs, i) ==
    IF i > Len(fs) THEN [ bytes |-> v, over |-> FALSE ]
    ELSE MulFactorsStep(v, fs, i, MulAdd(v, fs[i], 0))

MulFactorsStep(v, fs, i, r) ==
    IF r.carry # 0 THEN [ bytes |-> v, over |-> TRUE ]
    ELSE MulFactors(r.bytes, fs, i + 1)

RECURSIVE DigitsEnd(_, _)
\* the index of the first character from i on that is not a digit
DigitsEnd(s, i) ==
    IF i <= Len(s) /\ IsDigit(s[i]) THEN DigitsEnd(s, i + 1) ELSE i

RECURSIVE UnitEnd(_, _)
\* the index of the first character from i on that is a digit
UnitEnd(s, i) ==
    IF i <= Len(s) /\ ~IsDigit(s[i]) THEN UnitEnd(s, i + 1) ELSE i

DurationError == [ ok |-> FALSE, val |-> Zero64, err |-> "duration" ]

RECURSIVE ParseDurationFrom(_, _, _, _)
RECURSIVE ParseDurationNumber(_, _, _, _, _)
RECURSIVE ParseDurationUnit(_, _, _, _, _, _)
RECURSIVE ParseDurationScaled(_, _, _, _, _)
RECURSIVE ParseDurationSum(_, _, _, _)
\* the loop of ParseDuration from character i on: a number, then a unit,
\* repeated; d is the sum so far
ParseDurationFrom(s, i, d, neg) ==
    IF i > Len(s)
      THEN IF neg THEN [ ok |-> TRUE, val |-> Neg64(d), err |-> "" ]
           ELSE IF d[WordBytes] >= ByteBase \div 2 THEN DurationError
           ELSE [ ok |-> TRUE, val |-> d, err |-> "" ]
    ELSE IF ~IsDigit(s[i]) THEN DurationError
    ELSE ParseDurationNumber(s, i, DigitsEnd(s, i), d, neg)

\* leadingInt: the digits are s[i..j-1]
ParseDurationNumber(s, i, j, d, neg) ==
    ParseDurationUnit(s, j, UnitEnd(s, j),
                      ParseUintFrom(SubSeq(s, i, j - 1), 1, Zero64), d, neg)

\* the unit is s[j..e-1]; v is the number read
ParseDurationUnit(s, j, e, v, d, neg) ==
    IF ~v.ok \/ Above63(v.val) THEN DurationError
    ELSE IF e = j THEN DurationError
    ELSE IF UnitFactors(SubSeq(s, j, e - 1)) = << >> THEN DurationError
    ELSE ParseDurationScaled(s, e,
                             MulFactors(v.val, UnitFactors(SubSeq(s, j, e - 1)), 1),
                             d, neg)

\* p is the number times its unit
ParseDurationScaled(s, e, p, d, neg) ==
    IF p.over \/ Above63(p.bytes) THEN DurationError
    ELSE ParseDurationSum(s, e, Add64(d, p.bytes), neg)

\* sum is d plus the number times its unit
ParseDurationSum(s, e, sum, neg) ==
    IF sum.carry # 0 \/ Above63(sum.bytes) THEN DurationError
    ELSE ParseDurationFrom(s, e, sum.bytes, neg)

ParseDurationUnsigned(neg, rest) ==
    IF rest = <<"0">> THEN [ ok |-> TRUE, val |-> Zero64, err |-> "" ]
    ELSE IF Len(rest) = 0 THEN DurationError
    ELSE ParseDurationFrom(rest, 1, Zero64, neg)

\* time.ParseDuration: [-+]?([0-9]+[a-z]+)+, "0" alone is zero
ParseDuration(s) ==
    IF Len(s) > 0 /\ s[1] \in {"+", "-"}
      THEN ParseDurationUnsigned(s[1] = "-", Tail2(s))
      ELSE ParseDurationUnsigned(FALSE, s)

(***************************************************************************)
(* Types and values of the destination record                              *)
(*                                                                         *)
(* A struct type is a sequence of fields, each                             *)
(*   [Name, Kind, Duration, Anonymous, Tag, Fields]                        *)
(* with the reflect.Kind of its type, whether the type is time.Duration,   *)
(* whether the field is embedded, the value of its `default` tag and, for  *)
(* a struct, the fields of that struct.  A leaf of a record is named by    *)
(* the path of field indexes leading to it.                                *)
(***************************************************************************)
Leaf(name, kind, tag) ==
    [ Name |-> name, Kind |-> kind, Duration |-> FALSE, Anonymous |-> FALSE,
      Tag |-> tag, Fields |-> << >> ]

DurationLeaf(name, tag) ==
    [ Name |-> name, Kind |-> "Int64", Duration |-> TRUE, Anonymous |-> FALSE,
      Tag |-> tag, Fields |-> << >> ]

Group(name, anonymous, fields) ==
    [ Name |-> name, Kind |-> "Struct", Duration |-> FALSE, Anonymous |-> anonymous,
      Tag |-> << >>, Fields |-> fields ]

\* the width in bits of an integer kind (int and uint are 64 bits wide on
\* the 64-bit platforms)
KindBits(kind) ==
    CASE kind \in {"Int8", "Uint8"}   -> 8
      [] kind \in {"Int16", "Uint16"} -> 16
      [] kind \in {"Int32", "Uint32"} -> 32
      [] OTHER                        -> 64

SignedKinds == {"Int", "Int8", "Int16", "Int32", "Int64"}

UnsignedKinds == {"Uint", "Uint8", "Uint16", "Uint32", "Uint64"}

FloatKinds == {"Float32", "Float64"}

\* the zero value of a field of the given kind
ZeroOf(kind) ==
    CASE kind = "Bool"                          -> FALSE
      [] kind = "String"                        -> << >>
      [] kind \in SignedKinds \cup UnsignedKinds -> Truncate(Zero64, KindBits(kind))
      [] kind \in FloatKinds                    -> [ neg |-> FALSE, mag |-> <<"0">> ]
      [] OTHER                                  -> << >>

\* reflect.Value.CanSet for a field reached from a pointer to the record
\* through settable fields: the field is exported, its name starts with an
\* upper-case letter
CanSet(field) == IndexIn(field.Name[1], UpperLetters) # 0

(***************************************************************************)
(* The field catalog                                                       *)
(***************************************************************************)
RECURSIVE getFieldsFrom(_, _, _, _, _)
\* the loop of getFieldsHelper from field i on; path and owner locate
\* valueObject (owner is the destination record it belongs to), parent is
\* << >> for nil and <<fd>> for a pointer to fd
getFieldsFrom(typeObject, i, path, owner, parent) ==
    IF i > Len(typeObject) THEN << >>
    ELSE LET field == typeObject[i]
             fd    == [ Name         |-> field.Name,
                        Parent       |-> parent,
                        Value        |-> [ rec |-> owner, path |-> Append(path, i) ],
                        Field        |-> [ Kind |-> field.Kind, Duration |-> field.Duration ],
                        DefaultValue |-> field.Tag ]
             rest  == getFieldsFrom(typeObject, i + 1, path, owner, parent)
         IN  IF ~CanSet(field) THEN rest
             ELSE IF field.Kind # "Struct" THEN <<fd>> \o rest
             ELSE getFieldsFrom(field.Fields, 1, Append(path, i), owner,
                                IF field.Anonymous THEN fd.Parent ELSE <<fd>>) \o rest

getFieldsHelper(typeObject, path, owner, parent) ==
    getFieldsFrom(typeObject, 1, path, owner, parent)

\* what Load may be handed: a pointer to a struct, or something else, for
\* which reflect panics in Elem, Type or NumField
IsStructPointer(into) == into.kind = "ptrStruct"

\* getFields: [panic, fields]
getFields(into, owner) ==
    IF IsStructPointer(into)
      THEN [ panic |-> FALSE, fields |-> getFieldsHelper(into.type, << >>, owner, << >>) ]
      ELSE [ panic |-> TRUE, fields |-> << >> ]

RECURSIVE FullName(_)
\* fieldData.FullName, of a pointer (<< >> is nil)
FullName(f) ==
    IF f = << >> THEN << >>
    ELSE IF f[1].Parent = << >> THEN f[1].Name
    ELSE FullName(f[1].Parent) \o <<".">> \o f[1].Name

RECURSIVE LeafPaths(_, _)
\* every leaf of a record of the given type, settable or not
LeafPaths(typeObject, path) ==
    UNION { IF typeObject[i].Kind = "Struct"
              THEN LeafPaths(typeObject[i].Fields, Append(path, i))
              ELSE { Append(path, i) } : i \in DOMAIN typeObject }

RECURSIVE FieldAt(_, _)
FieldAt(typeObject, path) ==
    IF Len(path) = 1 THEN typeObject[path[1]]
    ELSE FieldAt(typeObject[path[1]].Fields, Tail2(path))

\* a record of the type with every leaf at its zero value
ZeroRecord(typeObject) ==
    [ p \in LeafPaths(typeObject, << >>) |-> ZeroOf(FieldAt(typeObject, p).Kind) ]

(***************************************************************************)
(* The setters                                                             *)
(***************************************************************************)
\* reflect.Value.SetInt and SetUint: the store keeps the low bits that the
\* kind of the field holds
StoreInt(kind, x) == Truncate(x, KindBits(kind))

Failed(e) == [ ok |-> FALSE, err |-> e, panic |-> FALSE, val |-> << >> ]

Stored(v) == [ ok |-> TRUE, err |-> "", panic |-> FALSE, val |-> v ]

\* the end of a setter whose parse gave r: the error, or the value stored
SetParsed(r) ==
    IF ~r.ok THEN Failed(r.err) ELSE Stored(r.val)

\* the end of setInt and setUint: the error, or the store into the field
SetParsedInt(field, r) ==
    IF ~r.ok THEN Failed(r.err) ELSE Stored(StoreInt(field.Field.Kind, r.val))

setBool(field, value) == SetParsed(ParseBool(value))

setInt(field, value) == SetParsedInt(field, ParseInt(value))

setInt64(field, value) ==
    IF field.Field.Duration
      THEN SetParsed(ParseDuration(value))
      ELSE setInt(field, value)

setUint(field, value) == SetParsedInt(field, ParseUint(value))

setFloat(field, value) == SetParsed(ParseFloat(value))

setString(field, value) == Stored(value)

settersByKind ==
    [ k \in {"Bool", "String"} \cup SignedKinds \cup UnsignedKinds \cup FloatKinds |->
        CASE k = "Bool"          -> "setBool"
          [] k = "String"        -> "setString"
          [] k = "Int64"         -> "setInt64"
          [] k \in SignedKinds   -> "setInt"
          [] k \in UnsignedKinds -> "setUint"
          [] OTHER               -> "setFloat" ]

\* setFieldData: the setter of the field's kind, or a panic when the kind
\* has none
setFieldData(field, value) ==
    IF field.Field.Kind \in DOMAIN settersByKind
      THEN LET setter == settersByKind[field.Field.Kind]
           IN  CASE setter = "setBool"   -> setBool(field, value)
                 [] setter = "setString" -> setString(field, value)
                 [] setter = "setInt"    -> setInt(field, value)
                 [] setter = "setInt64"  -> setInt64(field, value)
                 [] setter = "setUint"   -> setUint(field, value)
                 [] OTHER                -> setFloat(field, value)
      ELSE [ ok |-> FALSE, err |-> "", panic |-> TRUE, val |-> << >> ]

(***************************************************************************)
(* The loader                                                              *)
(***************************************************************************)
\* NewLoader: the config with its prefixes given their separators
NewLoader(config) ==
    [ config |->
        [ config EXCEPT
            !.EnvPrefix  = IF config.EnvPrefix # << >>
                             THEN config.EnvPrefix \o <<"_">> ELSE config.EnvPrefix,
            !.FlagPrefix = IF config.FlagPrefix # << >>
                             THEN config.FlagPrefix \o <<".">> ELSE config.FlagPrefix ],
      fields |-> << >> ]

\* getEnvName without the replacement of the dots
getEnvNameDotted(l, name) == ToUpper(l.config.EnvPrefix \o name)

getEnvName(l, name) ==
    ToUpper(l.config.EnvPrefix \o ReplaceAll(name, ".", "_"))

getFlagName(l, name) ==
    ToLower(l.config.FlagPrefix \o name)

\* os.LookupEnv: << >> when the variable is not set, <<value>> when it is
LookupEnv(environ, name) ==
    IF name \in DOMAIN environ THEN << environ[name] >> ELSE << >>

\* flag.Lookup: << >> for nil, <<flag>> for a registered flag
FlagLookup(flagSet, name) ==
    IF name \in DOMAIN flagSet.formal THEN << flagSet.formal[name] >> ELSE << >>

\* flag.Parse: every flag given on the command line gets the value given,
\* the others keep the default they were registered with
FlagParse(flagSet, args) ==
    [ parsed |-> TRUE,
      formal |-> [ n \in DOMAIN flagSet.formal |->
                     IF n \in DOMAIN args
                       THEN [ flagSet.formal[n] EXCEPT !.Value = args[n] ]
                       ELSE flagSet.formal[n] ],
      actual |-> flagSet.actual \cup DOMAIN args ]

RECURSIVE ApplyFrom(_, _, _, _)
RECURSIVE ApplyResult(_, _, _, _, _)
\* the loop going on to the next field after an error of setFieldData
ApplyResultGoesOn(fields, values, i, r, res) ==
    IF res.panic THEN [ rec |-> r, err |-> "", panic |-> TRUE, idx |-> i ]
    ELSE IF ~res.ok THEN ApplyFrom(fields, values, i + 1, r)
    ELSE ApplyFrom(fields, values, i + 1,
                   [ r EXCEPT ![fields[i].Value.rec][fields[i].Value.path] = res.val ])

\* The loop shared by loadDefaults, loadEnvironment and loadFlags, from
\* field i on: values[i] is << >> when the loop passes field i over
\* (continue) and <<v>> when it calls setFieldData(fields[i], v).  r holds
\* the destination records; idx is the field the loop stopped at.
ApplyFrom(fields, values, i, r) ==
    IF i > Len(fields) THEN [ rec |-> r, err |-> "", panic |-> FALSE, idx |-> 0 ]
    ELSE IF values[i] = << >> THEN ApplyFrom(fields, values, i + 1, r)
    ELSE ApplyResult(fields, values, i, r, setFieldData(fields[i], values[i][1]))

\* if err := l.setFieldData(...); err != nil { return err }: res is what
\* setFieldData did for field i
ApplyResult(fields, values, i, r, res) ==
    IF res.panic THEN [ rec |-> r, err |-> "", panic |-> TRUE, idx |-> i ]
    ELSE IF ~res.ok THEN [ rec |-> r, err |-> res.err, panic |-> FALSE, idx |-> i ]
    ELSE ApplyFrom(fields, values, i + 1,
                   [ r EXCEPT ![fields[i].Value.rec][fields[i].Value.path] = res.val ])

\* loadDefaults: setFieldData(fd, fd.DefaultValue) for every field
loadDefaults(fields, r) ==
    ApplyFrom(fields, [ i \in DOMAIN fields |-> << fields[i].DefaultValue >> ], 1, r)

\* loadEnvironment: the fields whose variable is set
loadEnvironment(l, fields, environ, r) ==
    ApplyFrom(fields,
              [ i \in DOMAIN fields |->
                  LookupEnv(environ, getEnvName(l, FullName(<< fields[i] >>))) ],
              1, r)

\* loadFlags after flag.Parse: the fields with a registered flag
loadFlags(l, fields, flags, r) ==
    ApplyFrom(fields,
              [ i \in DOMAIN fields |->
                  IF FlagLookup(flags, getFlagName(l, FullName(<< fields[i] >>))) = << >>
                    THEN << >>
                    ELSE << FlagLookup(flags,
                               getFlagName(l, FullName(<< fields[i] >>)))[1].Value >> ],
              1, r)

(***************************************************************************)
(* Files                                                                   *)
(***************************************************************************)
RECURSIVE ExtFrom(_, _)
ExtFrom(path, i) ==
    IF i < 1 \/ path[i] = "/" THEN << >>
    ELSE IF path[i] = "." THEN SubSeq(path, i, Len(path))
    ELSE ExtFrom(path, i - 1)

\* filepath.Ext: from the last dot of the last element of the path
Ext(path) == ExtFrom(path, Len(path))

\* the decoder the switch of loadFromFile picks for an extension ("" when
\* the format is not supported)
DecoderOf(ext) ==
    CASE ext \in { <<".","y","a","m","l">>, <<".","y","m","l">> } -> "yaml"
      [] ext = <<".","j","s","o","n">>                             -> "json"
      [] ext = <<".","t","o","m","l">>                             -> "toml"
      [] OTHER                                                     -> ""

\* whether the 64-bit value x is outside what a field of the kind holds
OutOfRange(kind, x) ==
    IF kind \in SignedKinds THEN SignExtend(Truncate(x, KindBits(kind))) # x
    ELSE IF kind \in UnsignedKinds THEN ZeroExtend(Truncate(x, KindBits(kind))) # x
    ELSE FALSE

\* whether the text is a value a field can hold: it parses, and a number
\* is within the range of the field's kind
Fits(fd, text) ==
    /\ fd.Field.Kind \in DOMAIN settersByKind
    /\ setFieldData(fd, text).ok
    /\ fd.Field.Kind \in SignedKinds /\ ~fd.Field.Duration
         => ~OutOfRange(fd.Field.Kind, ParseInt(text).val)
    /\ fd.Field.Kind \in UnsignedKinds
         => ~OutOfRange(fd.Field.Kind, ParseUint(text).val)

\* The decoders are libraries; a file is modelled by what decoding it does:
\* whether it is well formed, and the fields (by dotted name) it holds a
\* value for.  Decoding a well-formed file whose values fit their fields
\* stores the value of each field it names; decoding any other file fails,
\* having stored the fitting values of the set `kept` (whatever the decoder
\* stored before or after it met the error).
DecodeGood(content, own) ==
    /\ content.wellformed
    /\ \A i \in DOMAIN own :
         FullName(<< own[i] >>) \in DOMAIN content.sets
           => Fits(own[i], content.sets[FullName(<< own[i] >>)])

\* the fields, by their index in own, that decoding stores
DecodeHits(content, own, kept, good) ==
    { i \in DOMAIN own :
        /\ FullName(<< own[i] >>) \in DOMAIN content.sets
        /\ good \/ FullName(<< own[i] >>) \in kept
        /\ Fits(own[i], content.sets[FullName(<< own[i] >>)]) }

RECURSIVE DecodeStore(_, _, _, _)
\* the stores of decoding, field by field
DecodeStore(content, own, hits, r) ==
    IF hits = { } THEN r
    ELSE LET i == CHOOSE i \in hits : TRUE
         IN  DecodeStore(content, own, hits \ {i},
                         [ r EXCEPT ![own[i].Value.rec][own[i].Value.path] =
                             setFieldData(own[i],
                                          content.sets[FullName(<< own[i] >>)]).val ])

DecodeEnds(content, own, kept, good, r) ==
    [ rec |-> DecodeStore(content, own, DecodeHits(content, own, kept, good), r),
      err |-> IF good THEN "" ELSE "decode" ]

Decode(content, own, kept, r) ==
    DecodeEnds(content, own, kept, DecodeGood(content, own), r)

\* the body of the loop of loadFromFile for file i: it returns or breaks on
\* every path, so the loop never reaches file i + 1.  own is the catalog
\* of dst.
FileLoop(l, i, disk, own, kept, r) ==
    IF i > Len(l.config.Files) THEN [ rec |-> r, err |-> "", opened |-> << >> ]
    ELSE IF ~disk[l.config.Files[i]].exists
      THEN [ rec |-> r, err |-> "open", opened |-> << l.config.Files[i] >> ]
    ELSE IF DecoderOf(ToLower(Ext(l.config.Files[i]))) = ""
      THEN [ rec |-> r, err |-> "format", opened |-> << l.config.Files[i] >> ]
    ELSE [ opened |-> << l.config.Files[i] >> ]
         @@ Decode(disk[l.config.Files[i]], own, kept, r)

loadFromFile(l, disk, own, kept, r) == FileLoop(l, 1, disk, own, kept, r)

(***************************************************************************)
(* Inputs: record types, files, environments, flags                        *)
(***************************************************************************)
\* the number of Load calls a caller makes on one destination
MaxLoads == 2

\* the depth to which the generated record types nest groups
MaxDepth == 2

\* the record of the README, with a field that has no default
SchemaReadme ==
    << Leaf(<<"P","o","r","t">>, "Int", <<"1","1","1","1">>),
       Group(<<"A","u","t","h">>, FALSE, << Leaf(<<"U","s","e","r">>, "String", <<"u">>),
                              Leaf(<<"P","a","s","s">>, "String", << >>) >>) >>

\* one field of each family of kinds, each with a default that parses
SchemaKinds ==
    << Leaf(<<"O","k">>, "Bool", <<"t","r","u","e">>),
       Leaf(<<"N","8">>, "Int8", <<"1">>),
       Leaf(<<"U","1","6">>, "Uint16", <<"1">>),
       Leaf(<<"N","3","2">>, "Int32", <<"1">>),
       Leaf(<<"U","6","4">>, "Uint64", <<"1">>),
       DurationLeaf(<<"W","a","i","t">>, <<"5","s">>),
       Leaf(<<"R","a","t","e">>, "Float64", <<"1">>) >>

\* a field without a default, of each family of kinds, before one with a
\* default
NoDefaultSchemas ==
    { << f, Leaf(<<"P","o","r","t">>, "Int", <<"1","1","1","1">>) >> :
        f \in { Leaf(<<"X">>, k, << >>) : k \in {"Bool", "Int", "Uint", "Float64", "String"} }
              \cup { DurationLeaf(<<"X">>, << >>) } }

\* a slice field no source names, after a field with a default
SchemaSlice ==
    << Leaf(<<"P","o","r","t">>, "Int", <<"1","1","1","1">>), Leaf(<<"T","a","g","s">>, "Slice", << >>) >>

\* an embedded struct, an unexported field and an unexported struct
SchemaEmbedded ==
    << Group(<<"B","a","s","e">>, TRUE, << Leaf(<<"U","s","e","r">>, "String", <<"u">>) >>),
       Leaf(<<"s","e","c","r","e","t">>, "String", <<"s">>),
       Group(<<"i","n","n","e","r">>, FALSE, << Leaf(<<"P","o","r","t">>, "Int", <<"1">>) >>),
       Leaf(<<"P","o","r","t">>, "Int", <<"1","1","1","1">>) >>

GroupNames == << <<"A","u","t","h">>, <<"D","b">>, <<"T","l","s">>, <<"P","o","o","l">> >>

RECURSIVE Chains(_)
\* the record types that nest a leaf User under d groups, named or
\* embedded, each group followed by a leaf Port
Chains(d) ==
    IF d = 0 THEN { << Leaf(<<"U","s","e","r">>, "String", <<"u">>) >> }
    ELSE { << Group(GroupNames[d], a, inner), Leaf(<<"P","o","r","t">>, "Int", <<"1","1","1","1">>) >> :
              a \in BOOLEAN, inner \in Chains(d - 1) }

ChainSchemas == UNION { Chains(d) : d \in 0..MaxDepth }

\* what Load is handed
Destinations ==
    { [ kind |-> "ptrStruct", type |-> t ] :
        t \in {SchemaReadme, SchemaKinds, SchemaSlice, SchemaEmbedded} \cup NoDefaultSchemas }
    \cup { [ kind |-> k, type |-> SchemaReadme ] : k \in {"struct", "ptrInt", "nil"} }

\* a value other than the zero value, for a record filled in before Load
PresetOf(kind) ==
    CASE kind = "Bool"         -> TRUE
      [] kind = "String"       -> <<"o","l","d">>
      [] kind \in SignedKinds \cup UnsignedKinds
                               -> Truncate(MulAdd(Zero64, 1, 7).bytes, KindBits(kind))
      [] kind \in FloatKinds   -> [ neg |-> FALSE, mag |-> <<"7">> ]
      [] OTHER                 -> << >>

PresetRecord(typeObject) ==
    [ p \in LeafPaths(typeObject, << >>) |-> PresetOf(FieldAt(typeObject, p).Kind) ]

\* the files on disk
Disk ==
    (<<"a",".","j","s","o","n">> :> [ exists |-> TRUE, wellformed |-> TRUE,
                   sets |-> (<<"P","o","r","t">> :> <<"2","2","2","2">>) @@ (<<"A","u","t","h",".","U","s","e","r">> :> <<"f">>) ])
    @@ (<<"b",".","y","a","m","l">> :> [ exists |-> TRUE, wellformed |-> TRUE,
                      sets |-> (<<"P","o","r","t">> :> <<"2","2">>) ])
    @@ (<<"m",".","j","s","o","n">> :> [ exists |-> FALSE, wellformed |-> FALSE, sets |-> << >> ])
    @@ (<<"b","a","d",".","t","o","m","l">> :> [ exists |-> TRUE, wellformed |-> FALSE,
                        sets |-> (<<"P","o","r","t">> :> <<"2","2","2","2">>) @@ (<<"U","s","e","r">> :> <<"f">>) ])
    @@ (<<"c",".","i","n","i">> :> [ exists |-> TRUE, wellformed |-> TRUE,
                     sets |-> (<<"P","o","r","t">> :> <<"2","2","2","2">>) ])

FileLists ==
    { << >>, << <<"a",".","j","s","o","n">>, <<"b",".","y","a","m","l">> >>, << <<"m",".","j","s","o","n">>, <<"b",".","y","a","m","l">> >>,
      << <<"b","a","d",".","t","o","m","l">>, <<"a",".","j","s","o","n">> >>, << <<"c",".","i","n","i">> >> }

\* environments, by the dotted name of the field a variable is meant for
EnvNone == << >>

EnvGood ==
    (<<"P","o","r","t">> :> <<"3","3","3","3">>) @@ (<<"A","u","t","h",".","U","s","e","r">> :> <<"e">>) @@ (<<"U","s","e","r">> :> <<"e">>)
    @@ (<<"N","8">> :> <<"-","5">>) @@ (<<"W","a","i","t">> :> <<"1","h","3","0","m">>)

EnvBad ==
    (<<"P","o","r","t">> :> <<"a","b","c">>) @@ (<<"A","u","t","h",".","P","a","s","s">> :> <<"e">>) @@ (<<"N","8">> :> <<"3","0","0">>)
    @@ (<<"U","1","6">> :> <<"9","9","9","9","9","9","9","9","9","9","9">>) @@ (<<"N","3","2">> :> <<"9","9","9","9","9","9","9","9","9","9","9">>)
    @@ (<<"U","6","4">> :> <<"9","9","9","9","9","9","9","9","9","9","9","9","9","9","9","9","9","9","9","9">>) @@ (<<"X">> :> <<"7">>)

\* the key an application sets for a field: the prefix and the names of the
\* path in upper case, joined by underscores
EnvKeyFor(prefix, dotted) ==
    ToUpper((IF prefix = << >> THEN << >> ELSE prefix \o <<"_">>)
            \o ReplaceAll(dotted, ".", "_"))

Environ(prefix, base) ==
    [ k \in { EnvKeyFor(prefix, d) : d \in DOMAIN base } |->
        base[CHOOSE d \in DOMAIN base : EnvKeyFor(prefix, d) = k] ]

\* registered flags, by the dotted name of the field a flag is meant for:
\* the default each was registered with
FlagsNone == << >>

FlagsSome == (<<"P","o","r","t">> :> <<"0">>) @@ (<<"A","u","t","h",".","U","s","e","r">> :> << >>) @@ (<<"U","s","e","r">> :> <<"d">>)

\* command lines: the value given to each flag that is given
ArgsNone == << >>

ArgsPort == (<<"P","o","r","t">> :> <<"4","4","4","4">>)

ArgsBad == (<<"P","o","r","t">> :> <<"x">>) @@ (<<"U","s","e","r">> :> <<"c">>)

FlagNameFor(prefix, dotted) ==
    ToLower((IF prefix = << >> THEN << >> ELSE prefix \o <<".">>) \o dotted)

FlagSet(prefix, base) ==
    [ parsed |-> FALSE,
      formal |-> [ k \in { FlagNameFor(prefix, d) : d \in DOMAIN base } |->
                     LET d == CHOOSE d \in DOMAIN base : FlagNameFor(prefix, d) = k
                     IN  [ Name |-> k, Value |-> base[d], DefValue |-> base[d] ] ],
      actual |-> { } ]

CommandLine(prefix, base) ==
    [ k \in { FlagNameFor(prefix, d) : d \in DOMAIN base } |->
        base[CHOOSE d \in DOMAIN base : FlagNameFor(prefix, d) = k] ]

Prefixes == { [ env |-> << >>, flag |-> << >> ], [ env |-> <<"A","P","P">>, flag |-> <<"a","p","p">> ] }

(***************************************************************************)
(* State                                                                   *)
(***************************************************************************)
VARIABLES
    given,      \* the LoaderConfig handed to NewLoader
    loader,     \* the Loader: its config and its fields
    into,       \* per caller, what it hands to Load
    rec,        \* per caller, the leaves of its destination record
    environ,    \* the process environment
    flagSet,    \* flag.CommandLine: parsed, the registered flags, those set
    args,       \* the flags given on the command line
    pc,         \* per caller, where its Load call is
    err,        \* per caller, the error its last Load returned ("" for nil)
    calls,      \* per caller, the Load calls made
    pre,        \* per caller, its record when its Load call began
    before,     \* per caller, its record when its last stage began
    ran,        \* per caller, the stages its Load call ran
    errIdx,     \* per caller, the field its last stage stopped at (0: none)
    lookups,    \* per caller, the environment keys its Load call looked up
    opened,     \* per caller, the files its Load call opened
    wrote       \* per caller, the records its Load call changed

vars ==
    << given, loader, into, rec, environ, flagSet, args, pc, err, calls,
       pre, before, ran, errIdx, lookups, opened, wrote >>

inputs == << given, into, environ, args >>

Callers == DOMAIN pc

\* a panic ends the process
Crashed == \E t \in Callers : pc[t] = "panic"

InitWith(dests, presets, config, envBase, flagBase, argBase) ==
    /\ given = config
    /\ loader = NewLoader(config)
    /\ into = dests
    /\ rec = [ t \in DOMAIN dests |->
                 IF presets[t] THEN PresetRecord(dests[t].type)
                 ELSE ZeroRecord(dests[t].type) ]
    /\ environ = Environ(config.EnvPrefix, envBase)
    /\ flagSet = FlagSet(config.FlagPrefix, flagBase)
    /\ args = CommandLine(config.FlagPrefix, argBase)
    /\ pc = [ t \in DOMAIN dests |-> "idle" ]
    /\ err = [ t \in DOMAIN dests |-> "" ]
    /\ calls = [ t \in DOMAIN dests |-> 0 ]
    /\ pre = rec
    /\ before = rec
    /\ ran = [ t \in DOMAIN dests |-> << >> ]
    /\ errIdx = [ t \in DOMAIN dests |-> 0 ]
    /\ lookups = [ t \in DOMAIN dests |-> << >> ]
    /\ opened = [ t \in DOMAIN dests |-> << >> ]
    /\ wrote = [ t \in DOMAIN dests |-> { } ]

\* the configs of a caller: any stages, with files, a prefix for the
\* environment and one for the flags
Configs(prefixes, fileLists) ==
    { [ UseDefaults |-> d, UseFile |-> f, UseEnv |-> e, UseFlag |-> g,
        EnvPrefix |-> px.env, FlagPrefix |-> px.flag, Files |-> fl ] :
        d \in BOOLEAN, f \in BOOLEAN, e \in BOOLEAN, g \in BOOLEAN,
        px \in prefixes, fl \in fileLists }

\* registered flags with a command line that names only registered flags
FlagInputs ==
    { << FlagsNone, ArgsNone >>, << FlagsSome, ArgsNone >>,
      << FlagsSome, ArgsPort >>, << FlagsSome, ArgsBad >> }

\* One caller, one destination.  The sources of a stage the config
\* switches off are left empty: the stage never reads them.
Init ==
    \E d \in Destinations, preset \in BOOLEAN,
       config \in Configs({ px \in Prefixes : px.env # << >> }, FileLists),
       envBase \in {EnvNone, EnvGood, EnvBad}, fa \in FlagInputs :
        /\ ~config.UseFile => config.Files = << >>
        /\ ~config.UseEnv => envBase = EnvNone
        /\ ~config.UseFlag => fa[1] = FlagsNone
        /\ InitWith(<< d >>, << preset >>, config, envBase, fa[1], fa[2])

(***************************************************************************)
(* Load, one action per step of its body                                   *)
(***************************************************************************)
\* The catalogs a stage of caller t may range over: the loop reads
\* l.fields, which holds the catalog of the last Load call to store one;
\* with two calls running the read is unsynchronised, and also sees the
\* caller's own store.
Visible(t) == { loader.fields, getFields(into[t], t).fields }

\* the records among r that differ from rec
Changed(r) == { o \in DOMAIN rec : r[o] # rec[o] }

\* the state after a stage of caller t: res is [rec, err, panic, idx]
StageEnds(t, stage, next, res) ==
    /\ rec' = res.rec
    /\ before' = [ before EXCEPT ![t] = rec[t] ]
    /\ ran' = [ ran EXCEPT ![t] = Append(@, stage) ]
    /\ errIdx' = [ errIdx EXCEPT ![t] = res.idx ]
    /\ err' = [ err EXCEPT ![t] = res.err ]
    /\ wrote' = [ wrote EXCEPT ![t] = @ \cup Changed(res.rec) ]
    /\ pc' = [ pc EXCEPT ![t] = IF res.panic THEN "panic"
                                ELSE IF res.err # "" THEN "done" ELSE next ]

\* a stage the config has switched off
StageSkipped(t, next) ==
    /\ pc' = [ pc EXCEPT ![t] = next ]
    /\ UNCHANGED << rec, before, ran, errIdx, err, wrote >>

\* l.fields = getFields(into): g is what getFields did
BeginEnds(t, g) ==
    /\ loader' = IF g.panic THEN loader ELSE [ loader EXCEPT !.fields = g.fields ]
    /\ pc' = [ pc EXCEPT ![t] = IF g.panic THEN "panic" ELSE "defaults" ]

\* Load, up to the first stage: l.fields = getFields(into)
LoadBegin(t) ==
    /\ ~Crashed
    /\ pc[t] \in {"idle", "done"}
    /\ calls[t] < MaxLoads
    /\ calls' = [ calls EXCEPT ![t] = @ + 1 ]
    /\ BeginEnds(t, getFields(into[t], t))
    /\ pre' = [ pre EXCEPT ![t] = rec[t] ]
    /\ before' = [ before EXCEPT ![t] = rec[t] ]
    /\ ran' = [ ran EXCEPT ![t] = << >> ]
    /\ err' = [ err EXCEPT ![t] = "" ]
    /\ errIdx' = [ errIdx EXCEPT ![t] = 0 ]
    /\ lookups' = [ lookups EXCEPT ![t] = << >> ]
    /\ opened' = [ opened EXCEPT ![t] = << >> ]
    /\ wrote' = [ wrote EXCEPT ![t] = { } ]
    /\ UNCHANGED << inputs, rec, flagSet >>

\* if l.config.UseDefaults { l.loadDefaults() }
LoadDefaults(t) ==
    /\ ~Crashed
    /\ pc[t] = "defaults"
    /\ IF loader.config.UseDefaults
         THEN \E fields \in Visible(t) :
                StageEnds(t, "defaults", "file", loadDefaults(fields, rec))
         ELSE StageSkipped(t, "file")
    /\ UNCHANGED << inputs, loader, flagSet, calls, pre, lookups, opened >>

\* the names of the fields the files of the config hold a value for
FileNames(l) ==
    UNION { DOMAIN Disk[l.config.Files[i]].sets : i \in DOMAIN l.config.Files }

FileStageEnds(t, res) ==
    /\ StageEnds(t, "file", "env",
                 [ rec |-> res.rec, err |-> res.err, panic |-> FALSE, idx |-> 0 ])
    /\ opened' = [ opened EXCEPT ![t] = res.opened ]

\* if l.config.UseFile { l.loadFromFile(into) }
LoadFromFile(t) ==
    /\ ~Crashed
    /\ pc[t] = "file"
    /\ IF loader.config.UseFile
         THEN \E kept \in SUBSET FileNames(loader) :
                FileStageEnds(t, loadFromFile(loader, Disk, getFields(into[t], t).fields,
                                              kept, rec))
         ELSE StageSkipped(t, "env") /\ UNCHANGED opened
    /\ UNCHANGED << inputs, loader, flagSet, calls, pre, lookups >>

\* the keys the loop of loadEnvironment looked up: those of the fields up
\* to the one it stopped at
EnvStageEnds(t, fields, res) ==
    /\ StageEnds(t, "env", "flags", res)
    /\ lookups' = [ lookups EXCEPT ![t] =
                      [ i \in 1..(IF res.idx = 0 THEN Len(fields) ELSE res.idx) |->
                          getEnvName(loader, FullName(<< fields[i] >>)) ] ]

\* if l.config.UseEnv { l.loadEnvironment() }
LoadEnvironment(t) ==
    /\ ~Crashed
    /\ pc[t] = "env"
    /\ IF loader.config.UseEnv
         THEN \E fields \in Visible(t) :
                EnvStageEnds(t, fields, loadEnvironment(loader, fields, environ, rec))
         ELSE StageSkipped(t, "flags") /\ UNCHANGED lookups
    /\ UNCHANGED << inputs, loader, flagSet, calls, pre, opened >>

\* if l.config.UseFlag { l.loadFlags() }, and the return of Load
LoadFlags(t) ==
    /\ ~Crashed
    /\ pc[t] = "flags"
    /\ IF loader.config.UseFlag
         THEN /\ flagSet' = IF flagSet.parsed THEN flagSet ELSE FlagParse(flagSet, args)
              /\ \E fields \in Visible(t) :
                   StageEnds(t, "flags", "done", loadFlags(loader, fields, flagSet', rec))
         ELSE StageSkipped(t, "done") /\ UNCHANGED flagSet
    /\ UNCHANGED << inputs, loader, calls, pre, lookups, opened >>

\* the steps of Load, of any caller
CallLoad == \E t \in Callers : LoadBegin(t)

DefaultsStage == \E t \in Callers : LoadDefaults(t)

FileStage == \E t \in Callers : LoadFromFile(t)

EnvironmentStage == \E t \in Callers : LoadEnvironment(t)

FlagsStage == \E t \in Callers : LoadFlags(t)

Next ==
    \/ CallLoad
    \/ DefaultsStage
    \/ FileStage
    \/ EnvironmentStage
    \/ FlagsStage

Spec == Init /\ [][Next]_vars

\* One caller and a record type that nests groups to MaxDepth, with and
\* without prefixes
InitNames ==
    \E type \in ChainSchemas, config \in Configs(Prefixes, { << >>, << <<"a",".","j","s","o","n">> >> }),
       envBase \in {EnvNone, EnvGood}, fa \in { << FlagsNone, ArgsNone >>, << FlagsSome, ArgsPort >> } :
        InitWith(<< [ kind |-> "ptrStruct", type |-> type ] >>, << FALSE >>,
                 config, envBase, fa[1], fa[2])

SpecNames == InitNames /\ [][Next]_vars

\* Two callers of one Loader, each with a destination record of its own
InitTwo ==
    \E type \in {SchemaReadme, SchemaEmbedded},
       config \in { c \in Configs({ px \in Prefixes : px.env # << >> },
                                  { << <<"a",".","j","s","o","n">> >> }) :
                      c.UseDefaults /\ c.UseEnv },
       fa \in { << FlagsNone, ArgsNone >>, << FlagsSome, ArgsPort >> } :
        InitWith(<< [ kind |-> "ptrStruct", type |-> SchemaReadme ],
                    [ kind |-> "ptrStruct", type |-> type ] >>,
                 << FALSE, TRUE >>, config, EnvGood, fa[1], fa[2])

SpecTwo == InitTwo /\ [][Next]_vars

(***************************************************************************)
(* What the claims speak of                                                *)
(***************************************************************************)
\* the catalog of caller t's own destination
Own(t) == getFields(into[t], t).fields

\* the stage caller t ran last ("" before the first)
LastStage(t) == IF ran[t] = << >> THEN "" ELSE ran[t][Len(ran[t])]

\* the value of caller t's record at the location of fd, now and when the
\* last stage began
Now(t, fd) == rec[t][fd.Value.path]

Was(t, fd) == before[t][fd.Value.path]

\* what a stage that walks the catalog hands to setFieldData for fd
\* (<< >>: nothing)
StageValue(stage, fd) ==
    CASE stage = "defaults" -> << fd.DefaultValue >>
      [] stage = "env"      -> LookupEnv(environ, getEnvName(loader, FullName(<< fd >>)))
      [] stage = "flags"    ->
           IF FlagLookup(flagSet, getFlagName(loader, FullName(<< fd >>))) = << >>
             THEN << >>
             ELSE << FlagLookup(flagSet, getFlagName(loader, FullName(<< fd >>)))[1].Value >>
      [] OTHER              -> << >>

\* field fd makes the stage fail: its value does not convert
Offends(stage, fd) ==
    /\ StageValue(stage, fd) # << >>
    /\ fd.Field.Kind \in DOMAIN settersByKind
    /\ ~setFieldData(fd, StageValue(stage, fd)[1]).ok

\* field fd makes the stage panic
Panics(stage, fd) ==
    /\ StageValue(stage, fd) # << >>
    /\ fd.Field.Kind \notin DOMAIN settersByKind

\* the stages the config switches on, in the order of Load
StagesOn ==
    SelectSeq(<< "defaults", "file", "env", "flags" >>,
              LAMBDA st : \/ st = "defaults" /\ given.UseDefaults
                          \/ st = "file" /\ given.UseFile
                          \/ st = "env" /\ given.UseEnv
                          \/ st = "flags" /\ given.UseFlag)

\* C5: when a stage of Load hits an error, Load returns that error at
\* once.  In a stage that walks the catalog the first field, in declaration
\* order, whose value does not convert decides the error; it and the fields
\* after it are as the stage found them, the fields before it hold what the
\* stage wrote, and the stages run are those switched on up to the failing
\* one, so that no later stage has run or written.
C5_ErrorAborts ==
    \A t \in Callers :
        /\ pc[t] = "done" /\ err[t] # "" =>
             /\ ran[t] = SubSeq(StagesOn, 1, Len(ran[t]))
             /\ LastStage(t) # "file" => errIdx[t] \in DOMAIN Own(t)
        /\ LastStage(t) \in {"defaults", "env", "flags"} /\ pc[t] # "panic" =>
             \A k \in DOMAIN Own(t) :
                 /\ Offends(LastStage(t), Own(t)[k])
                 /\ \A j \in 1..(k - 1) : /\ ~Offends(LastStage(t), Own(t)[j])
                                          /\ ~Panics(LastStage(t), Own(t)[j])
                 => /\ pc[t] = "done"
                    /\ err[t] = setFieldData(Own(t)[k], StageValue(LastStage(t), Own(t)[k])[1]).err
                    /\ errIdx[t] = k
                    /\ \A j \in k..Len(Own(t)) : Now(t, Own(t)[j]) = Was(t, Own(t)[j])
                    /\ \A j \in 1..(k - 1) :
                         Now(t, Own(t)[j]) =
                           IF StageValue(LastStage(t), Own(t)[j]) = << >>
                             THEN Was(t, Own(t)[j])
                             ELSE setFieldData(Own(t)[j],
                                               StageValue(LastStage(t), Own(t)[j])[1]).val
        /\ LastStage(t) = "file" /\ err[t] # "" => pc[t] = "done"

\* C5's case: the environment stage failed at the second field or later,
\* after the defaults stage, with a field before the failing one written
\* by the stage and the flags stage switched on
C5_Witness ==
    \E t \in Callers :
        /\ pc[t] = "done" /\ err[t] # "" /\ ran[t] = << "defaults", "env" >>
        /\ given.UseFlag
        /\ errIdx[t] > 1
        /\ \E j \in 1..(errIdx[t] - 1) : Now(t, Own(t)[j]) # Was(t, Own(t)[j])

RECURSIVE NamedPaths(_, _)
\* the settable leaves of a record type in declaration order, each as the
\* names of its named enclosing groups and its own name, root to leaf
NamedPaths(typeObject, names) ==
    IF typeObject = << >> THEN << >>
    ELSE LET f    == typeObject[1]
             rest == NamedPaths(Tail2(typeObject), names)
         IN  IF IndexIn(f.Name[1], UpperLetters) = 0 THEN rest
             ELSE IF f.Kind = "Struct"
               THEN NamedPaths(f.Fields, IF f.Anonymous THEN names ELSE Append(names, f.Name))
                    \o rest
             ELSE << Append(names, f.Name) >> \o rest

RECURSIVE JoinUpper(_)
\* the names in upper case, joined by underscores
JoinUpper(names) ==
    IF Len(names) = 1 THEN ToUpper(names[1])
    ELSE ToUpper(names[1]) \o <<"_">> \o JoinUpper(Tail2(names))

ExpectedEnvKey(prefix, names) ==
    (IF prefix = << >> THEN << >> ELSE ToUpper(prefix) \o <<"_">>) \o JoinUpper(names)

\* C6: the environment key looked up for a leaf field, at any depth, is
\* the prefix in upper case with one "_" after it when it is not empty,
\* then the names of the leaf's named enclosing groups and its own name in
\* upper case, joined by "_"; embedded groups give no segment; every leaf is
\* looked up when the stage does not fail; and this is so in every Load
\* call, the loader's prefix holding its separator once.
C6_EnvKey ==
    \A t \in Callers :
        /\ \A i \in DOMAIN lookups[t] :
             /\ i \in DOMAIN NamedPaths(into[t].type, << >>)
             /\ lookups[t][i] = ExpectedEnvKey(given.EnvPrefix, NamedPaths(into[t].type, << >>)[i])
        /\ LastStage(t) = "env" /\ err[t] = "" /\ pc[t] # "panic"
             => Len(lookups[t]) = Len(NamedPaths(into[t].type, << >>))
        /\ loader.config.EnvPrefix =
             IF given.EnvPrefix = << >> THEN << >> ELSE given.EnvPrefix \o <<"_">>

\* C6's case: in a second Load call, with a prefix, a leaf under two
\* groups of which one is embedded has been looked up
C6_Witness ==
    \E t \in Callers :
        /\ calls[t] = 2
        /\ given.EnvPrefix # << >>
        /\ Len(into[t].type) > 0 /\ into[t].type[1].Kind = "Struct"
        /\ into[t].type[1].Fields[1].Kind = "Struct"
        /\ into[t].type[1].Anonymous # into[t].type[1].Fields[1].Anonymous
        /\ Len(lookups[t]) > 1

\* the value a field holds once the text has been converted for it
Coerced(fd, text) == setFieldData(fd, text).val

\* the name of the flag for a field, and the key of its variable, as the
\* application registers and sets them
FlagOf(fd) == FlagNameFor(given.FlagPrefix, FullName(<< fd >>))

EnvOf(fd) == EnvKeyFor(given.EnvPrefix, FullName(<< fd >>))

\* the file caller t's Load decoded holds a value for fd
FileSupplies(t, fd) ==
    /\ opened[t] # << >>
    /\ FullName(<< fd >>) \in DOMAIN Disk[opened[t][1]].sets

\* the value of fd after a Load without error, by precedence: that of the
\* last stage switched on that supplies one, else the value before Load
FinalValue(t, fd) ==
    IF given.UseFlag /\ FlagOf(fd) \in DOMAIN flagSet.formal
      THEN Coerced(fd, flagSet.formal[FlagOf(fd)].Value)
    ELSE IF given.UseEnv /\ EnvOf(fd) \in DOMAIN environ
      THEN Coerced(fd, environ[EnvOf(fd)])
    ELSE IF given.UseFile /\ FileSupplies(t, fd)
      THEN Coerced(fd, Disk[opened[t][1]].sets[FullName(<< fd >>)])
    ELSE IF given.UseDefaults /\ fd.DefaultValue # << >>
      THEN Coerced(fd, fd.DefaultValue)
    ELSE pre[t][fd.Value.path]

\* C1: after a Load that returns no error every leaf field holds the
\* converted value of the last stage switched on, in the order defaults,
\* file, environment, flags, that supplies a value for it, and a field no
\* stage supplies a value for holds the value it had before Load.
C1_Precedence ==
    \A t \in Callers :
        pc[t] = "done" /\ err[t] = "" =>
            \A k \in DOMAIN Own(t) : Now(t, Own(t)[k]) = FinalValue(t, Own(t)[k])

\* the first of the configured files that exists (0: none does)
FirstExisting ==
    IF \E i \in DOMAIN given.Files : Disk[given.Files[i]].exists
      THEN CHOOSE i \in DOMAIN given.Files :
             /\ Disk[given.Files[i]].exists
             /\ \A j \in 1..(i - 1) : ~Disk[given.Files[j]].exists
      ELSE 0

\* C2: the file stage decodes the first configured file that exists:
\* missing files before it are passed over without error, that file and no
\* other is opened, and when it decodes its values are in the record.
C2_FirstExistingFile ==
    \A t \in Callers :
        LastStage(t) = "file" /\ FirstExisting # 0 =>
            /\ opened[t] = << given.Files[FirstExisting] >>
            /\ err[t] # "open"
            /\ /\ DecoderOf(ToLower(Ext(given.Files[FirstExisting]))) # ""
               /\ DecodeGood(Disk[given.Files[FirstExisting]], Own(t))
               => /\ err[t] = ""
                  /\ \A k \in DOMAIN Own(t) :
                       FullName(<< Own(t)[k] >>) \in DOMAIN Disk[given.Files[FirstExisting]].sets
                         => Now(t, Own(t)[k]) =
                              Coerced(Own(t)[k],
                                      Disk[given.Files[FirstExisting]].sets[FullName(<< Own(t)[k] >>)])

\* C3: in the defaults stage a leaf field of a kind with a setter whose
\* default is empty or absent raises no error and is left at the value it
\* had.
C3_EmptyDefault ==
    \A t \in Callers :
        LastStage(t) = "defaults" /\ pc[t] # "panic" =>
            \A k \in DOMAIN Own(t) :
                /\ Own(t)[k].DefaultValue = << >>
                /\ Own(t)[k].Field.Kind \in DOMAIN settersByKind
                => /\ errIdx[t] # k
                   /\ Now(t, Own(t)[k]) = Was(t, Own(t)[k])

\* the text is a base-10 number outside the range of the field's kind
NumberOutOfRange(fd, text) ==
    /\ ~fd.Field.Duration
    /\ \/ /\ fd.Field.Kind \in SignedKinds
          /\ \/ ParseInt(text).err = "range"
             \/ ParseInt(text).ok /\ OutOfRange(fd.Field.Kind, ParseInt(text).val)
       \/ /\ fd.Field.Kind \in UnsignedKinds
          /\ \/ ParseUint(text).err = "range"
             \/ ParseUint(text).ok /\ OutOfRange(fd.Field.Kind, ParseUint(text).val)

\* C4: a base-10 number outside the range of the width of the field it is
\* applied to gives an error and the field is not written: after a stage
\* that handed such a text to a field, the stage has failed at that field or
\* before it and the field is as the stage found it.
C4_NoWrap ==
    \A t \in Callers :
        LastStage(t) \in {"defaults", "env", "flags"} /\ pc[t] # "panic" =>
            \A k \in DOMAIN Own(t) :
                /\ StageValue(LastStage(t), Own(t)[k]) # << >>
                /\ NumberOutOfRange(Own(t)[k], StageValue(LastStage(t), Own(t)[k])[1])
                => /\ err[t] # ""
                   /\ errIdx[t] \in 1..k
                   /\ Now(t, Own(t)[k]) = Was(t, Own(t)[k])

\* C7: Load with a destination that is not a pointer to a struct returns
\* an InvalidTarget error, runs no stage and writes nothing.
C7_InvalidTarget ==
    \A t \in Callers :
        calls[t] > 0 /\ ~IsStructPointer(into[t]) =>
            /\ pc[t] = "done"
            /\ err[t] = "InvalidTarget"
            /\ ran[t] = << >>
            /\ rec[t] = pre[t]

\* what one stage of caller t's Load does to the records r with the
\* catalog of t's own destination
RunStage(t, stage, r) ==
    CASE stage = "defaults" -> loadDefaults(Own(t), r)
      [] stage = "file"     -> [ panic |-> FALSE ] @@ loadFromFile(loader, Disk, Own(t), { }, r)
      [] stage = "env"      -> loadEnvironment(loader, Own(t), environ, r)
      [] stage = "flags"    -> loadFlags(loader, Own(t), FlagParse(flagSet, args), r)

RECURSIVE AloneFrom(_, _, _)
\* the records after the stages, run one after the other by caller t alone
AloneFrom(t, stages, r) ==
    IF stages = << >> THEN r
    ELSE IF RunStage(t, stages[1], r).err # "" \/ RunStage(t, stages[1], r).panic
      THEN RunStage(t, stages[1], r).rec
    ELSE AloneFrom(t, Tail2(stages), RunStage(t, stages[1], r).rec)

\* C8: with two callers of one Loader, each with a record of its own, a
\* Load call changes no record but its caller's, and when both calls have
\* returned each record holds what a Load run alone would have given it.
C8_IndependentLoads ==
    \A t \in Callers :
        /\ wrote[t] \subseteq {t}
        /\ (\A u \in Callers : pc[u] = "done" /\ calls[u] = 1)
             => rec[t] = AloneFrom(t, StagesOn, pre)[t]

\* a source names the field: a default, a variable, or a registered flag
Targeted(fd) ==
    \/ fd.DefaultValue # << >>
    \/ EnvOf(fd) \in DOMAIN environ
    \/ FlagOf(fd) \in DOMAIN flagSet.formal

\* C9: a settable field of a kind without a setter stops Load only when a
\* source names it: a Load that stopped at such a field stopped at one with
\* a default, a variable or a registered flag.
C9_UnsupportedKind ==
    \A t \in Callers :
        pc[t] = "panic" /\ IsStructPointer(into[t]) =>
            /\ errIdx[t] \in DOMAIN Own(t)
            /\ Targeted(Own(t)[errIdx[t]])

\* C10: the flags stage writes a leaf field if and only if the flag of
\* its name is registered and carries a value given to it: after the stage
\* a field with such a flag holds the flag's value, and every other field is
\* as the stage found it.
C10_FlagWrites ==
    \A t \in Callers :
        LastStage(t) = "flags" /\ pc[t] = "done" /\ err[t] = "" =>
            \A k \in DOMAIN Own(t) :
                IF FlagOf(Own(t)[k]) \in DOMAIN flagSet.formal
                   /\ FlagOf(Own(t)[k]) \in flagSet.actual
                  THEN Now(t, Own(t)[k]) = Coerced(Own(t)[k], flagSet.formal[FlagOf(Own(t)[k])].Value)
                  ELSE Now(t, Own(t)[k]) = Was(t, Own(t)[k])

====
